---- MODULE Spec2Model ----
(***************************************************************************)
(* Model of fahimimam/chatApplication: the chatv2 server                   *)
(* (src/chatv2/main.go), the v1 server (package chat, under src/unnamed)  *)
(* and the CircularBuffer both share.                                      *)
(*                                                                         *)
(* Strings the program builds are sequences of tokens: the line            *)
(* "n1: hi there" is <<"n1", ":", "hi", "there">>, the Go zero string is   *)
(* <<>>.  A pointer to a Room is the room's name (rooms are never removed  *)
(* from the registry nor replaced), the nil pointer is Nil.                *)
(***************************************************************************)
EXTENDS Integers, Sequences, FiniteSets, TLC

VARIABLES
    Rooms,       \* Server.Rooms: room name -> Room record
    NickName,    \* Client.NickName of every session
    Room,        \* Client.Room of every session (a room name or Nil)
    closed,      \* whether Conn.Close() was called on the session's Conn
    pc,          \* where each session's ReadInput loop is: "read", "send", "done"
    held,        \* the Command a session's ReadInput is blocked sending, or NoCommand
    nread,       \* how many Commands each session's ReadInput has built
    cur,         \* the Command Server.Run received and is handling, or NoCommand
    sent,        \* tags of the Commands whose channel send completed, in order
    handled,     \* tags of the Commands whose handler returned, in order
    wire,        \* the Conn calls (Write, Close) of the latest handler, in order
    readerWire,  \* the line the latest ReadInput default branch wrote, with its session
    panicked,    \* v1: Server.Run's goroutine panicked (the process is gone)
    cb,          \* a CircularBuffer on its own
    added,       \* every message passed to cb's Add, in order
    got,         \* what the latest GetAll on cb returned
    inbox,       \* the lines that arrived on each session's Conn and no Read has taken
    typed,       \* every line each client has sent, in order
    enq,         \* the args of the Commands each session's ReadInput has built, in order
    stuck,       \* the sessions whose client has stopped reading: a Write never returns
    stalledAt,   \* the index in wire of the Write Run is held in (the calls after it
                 \* are never made), 0 when Run is not held
    budget       \* how many Commands the sessions may build in this behaviour

vars == <<Rooms, NickName, Room, closed, pc, held, nread, cur, sent, handled,
          wire, readerWire, panicked, cb, added, got,
          inbox, typed, enq, stuck, stalledAt, budget>>

connVars == <<inbox, typed, enq, stuck, stalledAt, budget>>

serverVars == <<Rooms, NickName, Room, closed, pc, held, nread, cur, sent,
                handled, wire, readerWire, panicked, connVars>>

bufferVars == <<cb, added, got>>

(***************************************************************************)
(* Bounds and program constants.                                           *)
(***************************************************************************)
ChatRoomBufferSize == 5

MaxCmds == 3

MaxCap == 5

MaxAdds == 7

ClientIds == {"c1", "c2"}

RoomNames == {"A", "B"}

NewNames == {"n1"}

Words == {"hi"}

Payloads == {<<"m1">>, <<"m2">>}

Nil == "nil"

\* Nothing has arrived on any Conn, every client reads what it is sent, and
\* the sessions may build b Commands.
InitConn(b) ==
    /\ inbox = [c \in ClientIds |-> <<>>]
    /\ typed = [c \in ClientIds |-> <<>>]
    /\ enq = [c \in ClientIds |-> <<>>]
    /\ stuck = {}
    /\ stalledAt = 0
    /\ budget = b

\* The orders in which a Range over a map with these keys can visit them.
Orders(S) == {o \in [1..Cardinality(S) -> S] : \A x \in S : \E i \in DOMAIN o : o[i] = x}

(***************************************************************************)
(* CircularBuffer.                                                         *)
(***************************************************************************)
NewCircularBuffer(size) ==
    [messages |-> [i \in 0..(size - 1) |-> <<>>],
     size |-> size, start |-> 0, end |-> 0, count |-> 0]

\* A faulty Add: start is not advanced when the buffer is full.
AddWithoutEvict(b, message) ==
    [b EXCEPT !.messages = [b.messages EXCEPT ![b.end] = message],
              !.end = (b.end + 1) % b.size,
              !.count = IF b.count = b.size THEN b.count ELSE b.count + 1]

\* A faulty Add: count goes on growing when the buffer is full.
AddAlwaysCounting(b, message) ==
    [b EXCEPT !.messages = [b.messages EXCEPT ![b.end] = message],
              !.end = (b.end + 1) % b.size,
              !.start = IF b.count = b.size THEN (b.start + 1) % b.size ELSE b.start,
              !.count = b.count + 1]

Add(b, message) ==
    [b EXCEPT !.messages = [b.messages EXCEPT ![b.end] = message],
              !.end = (b.end + 1) % b.size,
              !.start = IF b.count = b.size THEN (b.start + 1) % b.size ELSE b.start,
              !.count = IF b.count = b.size THEN b.count ELSE b.count + 1]

\* A faulty GetAll: it reads from slot 0 instead of start.
GetAllFromZero(b) == [i \in 1..b.count |-> b.messages[(i - 1) % b.size]]

GetAll(b) == [i \in 1..b.count |-> b.messages[(b.start + (i - 1)) % b.size]]

(***************************************************************************)
(* chatv2: connections, lines and commands.                                *)
(***************************************************************************)
\* Conn.Write(line) on session c's Conn; ok is false when the Conn was closed before.
ConnWrite(c, line) == [op |-> "write", to |-> c, line |-> line, ok |-> ~closed[c]]

\* Conn.Close() on session c's Conn.
ConnClose(c) == [op |-> "close", to |-> c, line |-> <<>>, ok |-> ~closed[c]]

\* Client.Error: one "Error: ..." line on the session's own Conn.
Error(c, text) == <<ConnWrite(c, <<"Error:", text>>)>>

CmdNickname == "/name"

CmdRooms == "/rooms"

CmdJoin == "/join"

CmdMsg == "/msg"

CmdQuit == "/quit"

CommandIDs == {CmdNickname, CmdRooms, CmdJoin, CmdMsg, CmdQuit}

\* What strings.Split(msg, " ") can give for the lines the clients send.
InputArgs ==
    {<<CmdNickname>>, <<CmdRooms>>, <<CmdJoin>>, <<CmdMsg>>, <<CmdQuit>>, <<"/who">>}
    \cup {<<CmdNickname, n>> : n \in NewNames}
    \cup {<<CmdJoin, r>> : r \in RoomNames}
    \cup {<<CmdMsg, r>> : r \in {"A"}}
    \cup {<<CmdMsg, r, w>> : r \in RoomNames, w \in Words}

\* No Command (held, cur) and no Conn call (readerWire).
NoCommand == [ID |-> "", Client |-> "", Args |-> <<>>, tag |-> <<"", 0>>]

NoCall == [op |-> "none", to |-> "", line |-> <<>>, ok |-> FALSE]

\* tag numbers the Commands a session builds; the program has no such field.
Command(id, c, args) == [ID |-> id, Client |-> c, Args |-> args, tag |-> <<c, nread[c] + 1>>]

NewRoom(name, messageBufferSize) ==
    [Name |-> name, Clients |-> {}, Messages |-> NewCircularBuffer(messageBufferSize)]

\* The Writes of one Range over the Clients of a room, visiting them in order ord.
broadcastMessage(clients, msg, ord) ==
    LET to == SelectSeq(ord, LAMBDA m : m \in clients)
    IN  [i \in 1..Len(to) |-> ConnWrite(to[i], msg)]

(***************************************************************************)
(* chatv2: the command handlers.  Each sets Rooms', NickName', Room',      *)
(* closed' and wire'.                                                      *)
(***************************************************************************)
\* A faulty ListRooms: rooms nobody is in are left out of the list.
ListRoomsNonEmpty(c, args, rord) ==
    LET shown == SelectSeq(rord, LAMBDA n : Rooms[n].Clients # {})
        roomList == IF Len(shown) = 0 THEN <<"no rooms available">> ELSE shown
    IN  /\ wire' = <<ConnWrite(c, <<"Rooms:">> \o roomList)>>
        /\ UNCHANGED <<Rooms, NickName, Room, closed>>

ListRooms(c, args, rord) ==
    LET roomList == IF Len(rord) = 0 THEN <<"no rooms available">> ELSE rord
    IN  /\ wire' = <<ConnWrite(c, <<"Rooms:">> \o roomList)>>
        /\ UNCHANGED <<Rooms, NickName, Room, closed>>

ServerNickName(c, args) ==
    IF Len(args) < 2
    THEN /\ wire' = Error(c, "nickname is required. usage: /name NEW_NICKNAME")
         /\ UNCHANGED <<Rooms, NickName, Room, closed>>
    ELSE /\ NickName' = [NickName EXCEPT ![c] = args[2]]
         /\ wire' = <<ConnWrite(c, <<"Nickname changed to:", args[2]>>)>>
         /\ UNCHANGED <<Rooms, Room, closed>>

\* fmt.Sprintf("%s: %s", c.NickName, strings.Join(args[2:], " "))
FormatMsg(nick, args) == <<nick, ":">> \o SubSeq(args, 3, Len(args))

\* A faulty Message: an unknown room is created while the error is answered.
MessageCreatingRoom(c, args, ord) ==
    IF Len(args) < 2
    THEN /\ wire' = Error(c, "message is required. usage: /msg ROOM MESSAGE")
         /\ UNCHANGED <<Rooms, NickName, Room, closed>>
    ELSE LET roomName == args[2]
             formattedMsg == FormatMsg(NickName[c], args)
         IN  IF roomName \notin DOMAIN Rooms
             THEN /\ wire' = Error(c, "room not found")
                  /\ Rooms' = [n \in DOMAIN Rooms \cup {roomName} |->
                                  IF n = roomName
                                  THEN NewRoom(roomName, ChatRoomBufferSize)
                                  ELSE Rooms[n]]
                  /\ UNCHANGED <<NickName, Room, closed>>
             ELSE /\ Rooms' = [Rooms EXCEPT ![roomName].Messages = Add(@, formattedMsg)]
                  /\ wire' = broadcastMessage(Rooms[roomName].Clients, formattedMsg, ord)
                  /\ UNCHANGED <<NickName, Room, closed>>

Message(c, args, ord) ==
    IF Len(args) < 2
    THEN /\ wire' = Error(c, "message is required. usage: /msg ROOM MESSAGE")
         /\ UNCHANGED <<Rooms, NickName, Room, closed>>
    ELSE LET roomName == args[2]
             formattedMsg == FormatMsg(NickName[c], args)
         IN  IF roomName \notin DOMAIN Rooms
             THEN /\ wire' = Error(c, "room not found")
                  /\ UNCHANGED <<Rooms, NickName, Room, closed>>
             ELSE /\ Rooms' = [Rooms EXCEPT ![roomName].Messages = Add(@, formattedMsg)]
                  /\ wire' = broadcastMessage(Rooms[roomName].Clients, formattedMsg, ord)
                  /\ UNCHANGED <<NickName, Room, closed>>

JoinedNotice(nick) == <<nick, "joined the room">>

LeftNotice(nick) == <<nick, "left the room">>

\* The history replay of Join: one Write per message of GetAll, in its order.
Replay(c, room) ==
    LET msgs == GetAll(room.Messages)
    IN  [i \in 1..Len(msgs) |-> ConnWrite(c, msgs[i])]

\* A faulty Join: the notice is broadcast before the history is replayed.
JoinWritesNoticeFirst(c, room, ord) ==
    broadcastMessage(room.Clients, JoinedNotice(NickName[c]), ord) \o Replay(c, room)

\* What Join writes once c is stored in room: the replay, then the notice.
JoinWrites(c, room, ord) ==
    Replay(c, room) \o broadcastMessage(room.Clients, JoinedNotice(NickName[c]), ord)

\* A faulty Join: the "joined the room" notice is added to the room's history.
JoinAddingNotice(c, args, ord) ==
    IF Len(args) < 2
    THEN /\ wire' = Error(c, "room name is required. usage: /join ROOM")
         /\ UNCHANGED <<Rooms, NickName, Room, closed>>
    ELSE LET roomName == args[2]
             loaded == [n \in DOMAIN Rooms \cup {roomName} |->
                           IF n \in DOMAIN Rooms
                           THEN Rooms[n]
                           ELSE NewRoom(roomName, ChatRoomBufferSize)]
             stored == [loaded EXCEPT ![roomName].Clients = @ \cup {c}]
         IN  /\ Rooms' = [stored EXCEPT ![roomName].Messages =
                                            Add(@, JoinedNotice(NickName[c]))]
             /\ Room' = [Room EXCEPT ![c] = roomName]
             /\ wire' = JoinWrites(c, stored[roomName], ord)
             /\ UNCHANGED <<NickName, closed>>

Join(c, args, ord) ==
    IF Len(args) < 2
    THEN /\ wire' = Error(c, "room name is required. usage: /join ROOM")
         /\ UNCHANGED <<Rooms, NickName, Room, closed>>
    ELSE LET roomName == args[2]
             loaded == [n \in DOMAIN Rooms \cup {roomName} |->
                           IF n \in DOMAIN Rooms
                           THEN Rooms[n]
                           ELSE NewRoom(roomName, ChatRoomBufferSize)]
             stored == [loaded EXCEPT ![roomName].Clients = @ \cup {c}]
         IN  /\ Rooms' = stored
             /\ Room' = [Room EXCEPT ![c] = roomName]
             /\ wire' = JoinWrites(c, stored[roomName], ord)
             /\ UNCHANGED <<NickName, closed>>

\* A faulty Quit: c.Room is not reset to nil.
QuitKeepingRoom(c, args, ord) ==
    /\ IF Room[c] # Nil
       THEN LET left == [Rooms EXCEPT ![Room[c]].Clients = @ \ {c}]
            IN  /\ Rooms' = left
                /\ wire' = broadcastMessage(left[Room[c]].Clients,
                                            LeftNotice(NickName[c]), ord)
                           \o <<ConnClose(c)>>
       ELSE /\ wire' = <<ConnClose(c)>>
            /\ UNCHANGED Rooms
    /\ closed' = [closed EXCEPT ![c] = TRUE]
    /\ UNCHANGED <<NickName, Room>>

Quit(c, args, ord) ==
    /\ IF Room[c] # Nil
       THEN LET left == [Rooms EXCEPT ![Room[c]].Clients = @ \ {c}]
            IN  /\ Rooms' = left
                /\ wire' = broadcastMessage(left[Room[c]].Clients,
                                            LeftNotice(NickName[c]), ord)
                           \o <<ConnClose(c)>>
                /\ Room' = [Room EXCEPT ![c] = Nil]
       ELSE /\ wire' = <<ConnClose(c)>>
            /\ UNCHANGED <<Rooms, Room>>
    /\ closed' = [closed EXCEPT ![c] = TRUE]
    /\ UNCHANGED NickName

(***************************************************************************)
(* chatv2: the tasks.  One ReadInput loop per session, one Server.Run.     *)
(***************************************************************************)
InFlight == Len(sent) + Cardinality({c \in ClientIds : pc[c] = "send"})

\* One iteration of ReadInput up to its channel send: a line is read and split;
\* a known command is built and the loop blocks sending it, any other first
\* token is answered on the spot.
ReadInput(c, args) ==
    /\ pc[c] = "read"
    /\ ~closed[c]
    /\ IF args[1] \in CommandIDs
       THEN /\ InFlight < budget
            /\ held' = [held EXCEPT ![c] = Command(args[1], c, args)]
            /\ nread' = [nread EXCEPT ![c] = @ + 1]
            /\ pc' = [pc EXCEPT ![c] = "send"]
            /\ UNCHANGED readerWire
       ELSE /\ readerWire' = ConnWrite(c, <<"Error:", "unknown command:", args[1]>>)
            /\ UNCHANGED <<held, nread, pc>>
    /\ UNCHANGED <<Rooms, NickName, Room, closed, cur, sent, handled, wire, panicked>>
    /\ UNCHANGED <<bufferVars, connVars>>

\* ReadString fails on a closed Conn and ReadInput returns.
ReadInputErr(c) ==
    /\ pc[c] = "read"
    /\ closed[c]
    /\ pc' = [pc EXCEPT ![c] = "done"]
    /\ UNCHANGED <<Rooms, NickName, Room, closed, held, nread, cur, sent, handled,
                   wire, readerWire, panicked>>
    /\ UNCHANGED <<bufferVars, connVars>>

\* A faulty hand-over: the send completes while a handler is still running.
DeliverToBusy(c) ==
    /\ pc[c] = "send"
    /\ cur' = held[c]
    /\ sent' = Append(sent, held[c].tag)
    /\ held' = [held EXCEPT ![c] = NoCommand]
    /\ pc' = [pc EXCEPT ![c] = "read"]
    /\ UNCHANGED <<Rooms, NickName, Room, closed, nread, handled, wire, readerWire,
                   panicked>>
    /\ UNCHANGED <<bufferVars, connVars>>

\* The unbuffered channel: c's send completes when Run, back at the top of its
\* range loop, receives it.
Deliver(c) ==
    /\ pc[c] = "send"
    /\ cur = NoCommand
    /\ cur' = held[c]
    /\ sent' = Append(sent, held[c].tag)
    /\ held' = [held EXCEPT ![c] = NoCommand]
    /\ pc' = [pc EXCEPT ![c] = "read"]
    /\ UNCHANGED <<Rooms, NickName, Room, closed, nread, handled, wire, readerWire,
                   panicked>>
    /\ UNCHANGED <<bufferVars, connVars>>

\* The body of Run's loop for the received Command: the switch and the handler.
Run ==
    /\ cur # NoCommand
    /\ \E ord \in Orders(ClientIds), rord \in Orders(DOMAIN Rooms) :
          \/ cur.ID = CmdNickname /\ ServerNickName(cur.Client, cur.Args)
          \/ cur.ID = CmdRooms /\ ListRooms(cur.Client, cur.Args, rord)
          \/ cur.ID = CmdJoin /\ Join(cur.Client, cur.Args, ord)
          \/ cur.ID = CmdMsg /\ Message(cur.Client, cur.Args, ord)
          \/ cur.ID = CmdQuit /\ Quit(cur.Client, cur.Args, ord)
    /\ handled' = Append(handled, cur.tag)
    /\ cur' = NoCommand
    /\ UNCHANGED <<pc, held, nread, sent, readerWire, panicked>>
    /\ UNCHANGED <<bufferVars, connVars>>

\* main: an empty registry, Run started; NewClient for every connection.
InitServer ==
    /\ Rooms = [n \in {} |-> NewRoom(n, ChatRoomBufferSize)]
    /\ NickName = [c \in ClientIds |-> "Anonymous"]
    /\ Room = [c \in ClientIds |-> Nil]
    /\ closed = [c \in ClientIds |-> FALSE]
    /\ pc = [c \in ClientIds |-> "read"]
    /\ held = [c \in ClientIds |-> NoCommand]
    /\ nread = [c \in ClientIds |-> 0]
    /\ cur = NoCommand
    /\ sent = <<>>
    /\ handled = <<>>
    /\ wire = <<>>
    /\ readerWire = NoCall
    /\ panicked = FALSE
    /\ cb = NewCircularBuffer(1)
    /\ added = <<>>
    /\ got = <<>>

Init == InitServer /\ InitConn(MaxCmds)

Next ==
    \/ \E c \in ClientIds, args \in InputArgs : ReadInput(c, args)
    \/ \E c \in ClientIds : ReadInputErr(c)
    \/ \E c \in ClientIds : Deliver(c)
    \/ Run

Spec == Init /\ [][Next]_vars

(***************************************************************************)
(* The CircularBuffer on its own: any capacity, any sequence of calls.     *)
(***************************************************************************)
BufferAdd(message) ==
    /\ Len(added) < MaxAdds
    /\ cb' = Add(cb, message)
    /\ added' = Append(added, message)
    /\ UNCHANGED got
    /\ UNCHANGED serverVars

BufferGetAll ==
    /\ got' = GetAll(cb)
    /\ UNCHANGED <<cb, added>>
    /\ UNCHANGED serverVars

InitBuffer ==
    /\ Rooms = [n \in {} |-> NewRoom(n, ChatRoomBufferSize)]
    /\ NickName = [c \in ClientIds |-> "Anonymous"]
    /\ Room = [c \in ClientIds |-> Nil]
    /\ closed = [c \in ClientIds |-> FALSE]
    /\ pc = [c \in ClientIds |-> "read"]
    /\ held = [c \in ClientIds |-> NoCommand]
    /\ nread = [c \in ClientIds |-> 0]
    /\ cur = NoCommand
    /\ sent = <<>>
    /\ handled = <<>>
    /\ wire = <<>>
    /\ readerWire = NoCall
    /\ panicked = FALSE
    /\ \E size \in 1..MaxCap : cb = NewCircularBuffer(size)
    /\ added = <<>>
    /\ got = <<>>
    /\ InitConn(MaxCmds)

NextBuffer ==
    \/ \E message \in Payloads : BufferAdd(message)
    \/ BufferGetAll

SpecBuffer == InitBuffer /\ [][NextBuffer]_vars

(***************************************************************************)
(* v1 (package chat).  A Room is [Name, Members]; Members is keyed by the  *)
(* Conn's RemoteAddr, one per session.  A run-time panic in a handler      *)
(* unwinds Run's goroutine and ends the process.                           *)
(***************************************************************************)
CMD_NICKNAME == 0

CMD_JOIN == 1

CMD_ROOMS == 2

CMD_MSG == 3

CMD_QUIT == 4

ChatNoCommand == [ID |-> -1, Client |-> "", Args |-> <<>>, tag |-> <<"", 0>>]

ChatInputArgs ==
    {<<"/name">>, <<"/rooms">>, <<"/join">>, <<"/msg">>, <<"/quit">>, <<"/who">>}
    \cup {<<"/name", n>> : n \in NewNames}
    \cup {<<"/join", r>> : r \in RoomNames}
    \cup {<<"/msg", w>> : w \in Words}

\* The switch of ReadInput: the commandID of a first token, -1 for the default branch.
ChatCommandID(token) ==
    CASE token = "/name" -> CMD_NICKNAME
      [] token = "/rooms" -> CMD_ROOMS
      [] token = "/msg" -> CMD_MSG
      [] token = "/join" -> CMD_JOIN
      [] token = "/quit" -> CMD_QUIT
      [] OTHER -> -1

\* Client.Message: "> " and the text on the session's Conn.
ClientMessage(c, msg) == ConnWrite(c, <<">">> \o msg)

\* Room.Broadcast: Client.Message to every member but the sender, in Range order ord.
Broadcast(members, sender, msg, ord) ==
    LET to == SelectSeq(ord, LAMBDA m : m \in members /\ m # sender)
    IN  [i \in 1..Len(to) |-> ClientMessage(to[i], msg)]

\* args[1] of a one-element slice: index out of range, with nothing done before.
ChatPanic ==
    /\ panicked' = TRUE
    /\ UNCHANGED <<Rooms, NickName, Room, closed, wire>>

ChatNickName(c, args) ==
    IF Len(args) < 2
    THEN ChatPanic
    ELSE /\ NickName' = [NickName EXCEPT ![c] = args[2]]
         /\ wire' = <<ClientMessage(c, <<"all right, Server will know you by", args[2]>>)>>
         /\ UNCHANGED <<Rooms, Room, closed, panicked>>

\* A faulty quitCurrentRoom: the session is not deleted from its room's Members.
quitCurrentRoomKeeping(rooms, c) == rooms

\* quitCurrentRoom: the registry after it, and what it writes.
quitCurrentRoom(rooms, c) ==
    IF Room[c] # Nil
    THEN [rooms EXCEPT ![Room[c]].Members = @ \ {c}]
    ELSE rooms

quitCurrentRoomWrites(rooms, c, ord) ==
    IF Room[c] # Nil
    THEN Broadcast(quitCurrentRoom(rooms, c)[Room[c]].Members, c,
                   <<NickName[c], "has left the chat">>, ord)
    ELSE <<>>

ChatJoin(c, args, ord) ==
    IF Len(args) < 2
    THEN ChatPanic
    ELSE LET roomName == args[2]
             loaded == [n \in DOMAIN Rooms \cup {roomName} |->
                           IF n \in DOMAIN Rooms
                           THEN Rooms[n]
                           ELSE [Name |-> roomName, Members |-> {}]]
             stored == [loaded EXCEPT ![roomName].Members = @ \cup {c}]
             after == quitCurrentRoom(stored, c)
         IN  /\ Rooms' = after
             /\ Room' = [Room EXCEPT ![c] = roomName]
             /\ wire' = quitCurrentRoomWrites(stored, c, ord)
                        \o Broadcast(after[roomName].Members, c,
                                     <<NickName[c], "has joined the room">>, ord)
                        \o <<ClientMessage(c, <<"Welcome to", roomName>>)>>
             /\ UNCHANGED <<NickName, closed, panicked>>

ChatListRooms(c, args, rord) ==
    /\ wire' = <<ClientMessage(c, <<"available rooms are">> \o rord)>>
    /\ UNCHANGED <<Rooms, NickName, Room, closed, panicked>>

\* With c.Room nil the error is written and the call on the nil Room then
\* dereferences it: there is no return after c.Error.
ChatMessage(c, args, ord) ==
    IF Room[c] = Nil
    THEN /\ wire' = Error(c, "you must join the room first")
         /\ panicked' = TRUE
         /\ UNCHANGED <<Rooms, NickName, Room, closed>>
    ELSE /\ wire' = Broadcast(Rooms[Room[c]].Members, c,
                              <<NickName[c], ":">> \o SubSeq(args, 2, Len(args)), ord)
         /\ UNCHANGED <<Rooms, NickName, Room, closed, panicked>>

ChatQuit(c, args, ord) ==
    /\ Rooms' = quitCurrentRoom(Rooms, c)
    /\ wire' = quitCurrentRoomWrites(Rooms, c, ord)
               \o <<ClientMessage(c, <<"sad to see you go :(">>), ConnClose(c)>>
    /\ closed' = [closed EXCEPT ![c] = TRUE]
    /\ UNCHANGED <<NickName, Room, panicked>>

ChatReadInput(c, args) ==
    /\ ~panicked
    /\ pc[c] = "read"
    /\ ~closed[c]
    /\ IF ChatCommandID(args[1]) # -1
       THEN /\ InFlight < budget
            /\ held' = [held EXCEPT ![c] = Command(ChatCommandID(args[1]), c, args)]
            /\ nread' = [nread EXCEPT ![c] = @ + 1]
            /\ pc' = [pc EXCEPT ![c] = "send"]
            /\ UNCHANGED readerWire
       ELSE /\ readerWire' = ConnWrite(c, <<"Error:", "Unknown command:", args[1]>>)
            /\ UNCHANGED <<held, nread, pc>>
    /\ UNCHANGED <<Rooms, NickName, Room, closed, cur, sent, handled, wire, panicked>>
    /\ UNCHANGED <<bufferVars, connVars>>

ChatReadInputErr(c) ==
    /\ ~panicked
    /\ pc[c] = "read"
    /\ closed[c]
    /\ pc' = [pc EXCEPT ![c] = "done"]
    /\ UNCHANGED <<Rooms, NickName, Room, closed, held, nread, cur, sent, handled,
                   wire, readerWire, panicked>>
    /\ UNCHANGED <<bufferVars, connVars>>

ChatDeliver(c) ==
    /\ ~panicked
    /\ pc[c] = "send"
    /\ cur = ChatNoCommand
    /\ cur' = held[c]
    /\ sent' = Append(sent, held[c].tag)
    /\ held' = [held EXCEPT ![c] = ChatNoCommand]
    /\ pc' = [pc EXCEPT ![c] = "read"]
    /\ UNCHANGED <<Rooms, NickName, Room, closed, nread, handled, wire, readerWire,
                   panicked>>
    /\ UNCHANGED <<bufferVars, connVars>>

\* A handler that panics never returns: cur stays, nothing is handled any more.
ChatRun ==
    /\ ~panicked
    /\ cur # ChatNoCommand
    /\ \E ord \in Orders(ClientIds), rord \in Orders(DOMAIN Rooms) :
          \/ cur.ID = CMD_NICKNAME /\ ChatNickName(cur.Client, cur.Args)
          \/ cur.ID = CMD_ROOMS /\ ChatListRooms(cur.Client, cur.Args, rord)
          \/ cur.ID = CMD_JOIN /\ ChatJoin(cur.Client, cur.Args, ord)
          \/ cur.ID = CMD_MSG /\ ChatMessage(cur.Client, cur.Args, ord)
          \/ cur.ID = CMD_QUIT /\ ChatQuit(cur.Client, cur.Args, ord)
    /\ IF panicked'
       THEN UNCHANGED <<cur, handled>>
       ELSE /\ handled' = Append(handled, cur.tag)
            /\ cur' = ChatNoCommand
    /\ UNCHANGED <<pc, held, nread, sent, readerWire>>
    /\ UNCHANGED <<bufferVars, connVars>>

\* NewServer: an empty registry; main starts Run and a NewClient per connection.
InitChat ==
    /\ Rooms = [n \in {} |-> [Name |-> n, Members |-> {}]]
    /\ NickName = [c \in ClientIds |-> "Anonymous"]
    /\ Room = [c \in ClientIds |-> Nil]
    /\ closed = [c \in ClientIds |-> FALSE]
    /\ pc = [c \in ClientIds |-> "read"]
    /\ held = [c \in ClientIds |-> ChatNoCommand]
    /\ nread = [c \in ClientIds |-> 0]
    /\ cur = ChatNoCommand
    /\ sent = <<>>
    /\ handled = <<>>
    /\ wire = <<>>
    /\ readerWire = NoCall
    /\ panicked = FALSE
    /\ cb = NewCircularBuffer(1)
    /\ added = <<>>
    /\ got = <<>>
    /\ InitConn(MaxCmds)

NextChat ==
    \/ \E c \in ClientIds, args \in ChatInputArgs : ChatReadInput(c, args)
    \/ \E c \in ClientIds : ChatReadInputErr(c)
    \/ \E c \in ClientIds : ChatDeliver(c)
    \/ ChatRun

SpecChat == InitChat /\ [][NextChat]_vars

(***************************************************************************)
(* chatv2 with the Conn between a client and its ReadInput: the client     *)
(* sends whole lines, which arrive in order; ReadInput wraps the Conn in a *)
(* new bufio.Reader for every line it reads.                               *)
(***************************************************************************)
MaxLines == 3

\* The client writes one line, which arrives on the Conn behind those not yet
\* read.
ClientSend(c, args) ==
    /\ ~closed[c]
    /\ Len(typed["c1"]) + Len(typed["c2"]) < MaxLines
    /\ inbox' = [inbox EXCEPT ![c] = Append(@, args)]
    /\ typed' = [typed EXCEPT ![c] = Append(@, args)]
    /\ UNCHANGED <<enq, stuck, stalledAt, budget>>
    /\ UNCHANGED <<Rooms, NickName, Room, closed, pc, held, nread, cur, sent,
                   handled, wire, readerWire, panicked>>
    /\ UNCHANGED bufferVars

\* One iteration of ReadInput over the Conn: bufio.NewReader(c.Conn) and its
\* ReadString take every byte that has arrived into the reader's buffer and
\* return the first line; the reader, and the lines behind the first in its
\* buffer, are dropped at the end of the iteration.
ReadInputConn(c) ==
    /\ pc[c] = "read"
    /\ ~closed[c]
    /\ inbox[c] # <<>>
    /\ inbox' = [inbox EXCEPT ![c] = <<>>]
    /\ LET args == Head(inbox[c]) IN
         IF args[1] \in CommandIDs
         THEN /\ held' = [held EXCEPT ![c] = Command(args[1], c, args)]
              /\ nread' = [nread EXCEPT ![c] = @ + 1]
              /\ pc' = [pc EXCEPT ![c] = "send"]
              /\ enq' = [enq EXCEPT ![c] = Append(@, args)]
              /\ UNCHANGED readerWire
         ELSE /\ readerWire' = ConnWrite(c, <<"Error:", "unknown command:", args[1]>>)
              /\ UNCHANGED <<held, nread, pc, enq>>
    /\ UNCHANGED <<typed, stuck, stalledAt, budget>>
    /\ UNCHANGED <<Rooms, NickName, Room, closed, cur, sent, handled, wire, panicked>>
    /\ UNCHANGED bufferVars

InitLines == InitServer /\ InitConn(MaxLines)

NextLines ==
    \/ \E c \in ClientIds, args \in InputArgs : ClientSend(c, args)
    \/ \E c \in ClientIds : ReadInputConn(c)
    \/ \E c \in ClientIds : ReadInputErr(c)
    \/ \E c \in ClientIds : Deliver(c)
    \/ Run

SpecLines == InitLines /\ [][NextLines]_vars

(***************************************************************************)
(* chatv2 with connections that stop accepting writes: Conn.Write has no   *)
(* deadline and is called by the handler in Run's goroutine, so a Write to *)
(* such a connection never returns.                                        *)
(***************************************************************************)
MaxStuck == 1

\* c's client stops reading and its Conn's buffers are full.
StopReading(c) ==
    /\ c \notin stuck
    /\ ~closed[c]
    /\ Cardinality(stuck) < MaxStuck
    /\ stuck' = stuck \cup {c}
    /\ UNCHANGED <<inbox, typed, enq, stalledAt, budget>>
    /\ UNCHANGED <<Rooms, NickName, Room, closed, pc, held, nread, cur, sent,
                   handled, wire, readerWire, panicked>>
    /\ UNCHANGED bufferVars

\* The index of the first call of a handler that never returns, 0 if all do:
\* a Write on a closed Conn fails at once, on a stuck one it blocks.
FirstStuck(calls) ==
    LET idx == {i \in DOMAIN calls :
                   calls[i].op = "write" /\ calls[i].ok /\ calls[i].to \in stuck}
    IN  IF idx = {} THEN 0 ELSE CHOOSE i \in idx : \A j \in idx : i <= j

\* Quit held in its broadcast: the member is deleted, c.Room = nil and Close
\* are never reached.
QuitStalled(c, args, ord) ==
    /\ Room[c] # Nil
    /\ LET left == [Rooms EXCEPT ![Room[c]].Clients = @ \ {c}]
           calls == broadcastMessage(left[Room[c]].Clients,
                                     LeftNotice(NickName[c]), ord)
       IN  /\ FirstStuck(calls) # 0
           /\ Rooms' = left
           /\ wire' = calls \o <<ConnClose(c)>>
    /\ UNCHANGED <<NickName, Room, closed>>

\* The body of Run's loop when Writes may block: the handler runs up to its
\* first Write that never returns and Run stays there; every handler but Quit
\* has made its assignments before its first broadcast Write.
RunOrStall ==
    /\ cur # NoCommand
    /\ stalledAt = 0
    /\ \E ord \in Orders(ClientIds), rord \in Orders(DOMAIN Rooms) :
          \/ cur.ID = CmdNickname /\ ServerNickName(cur.Client, cur.Args)
          \/ cur.ID = CmdRooms /\ ListRooms(cur.Client, cur.Args, rord)
          \/ cur.ID = CmdJoin /\ Join(cur.Client, cur.Args, ord)
          \/ cur.ID = CmdMsg /\ Message(cur.Client, cur.Args, ord)
          \/ /\ cur.ID = CmdQuit
             /\ Quit(cur.Client, cur.Args, ord)
             /\ FirstStuck(wire') = 0
          \/ cur.ID = CmdQuit /\ QuitStalled(cur.Client, cur.Args, ord)
    /\ stalledAt' = FirstStuck(wire')
    /\ IF stalledAt' = 0
       THEN /\ handled' = Append(handled, cur.tag)
            /\ cur' = NoCommand
       ELSE UNCHANGED <<handled, cur>>
    /\ UNCHANGED <<pc, held, nread, sent, readerWire, panicked>>
    /\ UNCHANGED <<inbox, typed, enq, stuck, budget>>
    /\ UNCHANGED bufferVars

InitStall == InitServer /\ InitConn(MaxCmds)

NextStall ==
    \/ \E c \in ClientIds, args \in InputArgs : ReadInput(c, args)
    \/ \E c \in ClientIds : ReadInputErr(c)
    \/ \E c \in ClientIds : StopReading(c)
    \/ \E c \in ClientIds : Deliver(c)
    \/ RunOrStall

SpecStall == InitStall /\ [][NextStall]_vars

(***************************************************************************)
(* chatv2 run long enough for a room's history to wrap: c1 sends any of    *)
(* the lines below, c2 only joins room A.                                  *)
(***************************************************************************)
MaxHistory == 7

HistoryArgs(c) ==
    IF c = "c1"
    THEN {<<CmdMsg, "A", "hi">>, <<CmdMsg, "A">>, <<CmdMsg, "B", "hi">>,
          <<CmdNickname, "n1">>, <<CmdRooms>>, <<CmdQuit>>}
    ELSE {<<CmdJoin, "A">>}

InitHistory == InitServer /\ InitConn(MaxHistory)

NextHistory ==
    \/ \E c \in ClientIds : \E args \in HistoryArgs(c) : ReadInput(c, args)
    \/ \E c \in ClientIds : ReadInputErr(c)
    \/ \E c \in ClientIds : Deliver(c)
    \/ Run

SpecHistory == InitHistory /\ [][NextHistory]_vars

(***************************************************************************)
(* Properties.                                                             *)
(***************************************************************************)
IsPrefix(s, t) == Len(s) <= Len(t) /\ SubSeq(t, 1, Len(s)) = s

Min(a, b) == IF a < b THEN a ELSE b

\* The last n elements of s.
Recent(s, n) == SubSeq(s, Len(s) - n + 1, Len(s))

\* This step is Run returning from the handler of cur, a Command with this ID.
Handling(id) == cur.ID = id /\ handled' = Append(handled, cur.tag)

\* The sessions a sequence of Conn calls writes this line to.
WrittenTo(calls, line) ==
    {calls[i].to : i \in {j \in DOMAIN calls : calls[j].op = "write" /\ calls[j].line = line}}

\* C1: Run applies the commands one at a time, in the order their channel sends
\* complete: the handled commands are a prefix of the sent ones, the only sent
\* command not yet handled is the one Run holds (so one handler at most is in
\* progress), and each session's commands are handled in the order it built
\* them, each once.
C1_SerialInOrder ==
    /\ IsPrefix(handled, sent)
    /\ Len(sent) - Len(handled) = (IF cur = NoCommand THEN 0 ELSE 1)
    /\ cur # NoCommand => cur.tag = sent[Len(sent)]
    /\ \A c \in ClientIds :
          LET mine == SelectSeq(handled, LAMBDA t : t[1] = c)
          IN  mine = [i \in 1..Len(mine) |-> <<c, i>>]

\* Two sessions' commands were handled, c2's first, and a third is being
\* handled while the other session is already blocked sending or reading.
C1_Witness ==
    /\ handled = << <<"c2", 1>>, <<"c1", 1>> >>
    /\ cur # NoCommand
    /\ cur.tag = <<"c2", 2>>

\* C2: GetAll returns exactly the min(N, k) most recently added messages,
\* oldest first, for every capacity N and every sequence of k Adds; what the
\* latest GetAll call returned is that, for the Adds made before the call.
C2_GetAllMostRecent ==
    /\ GetAll(cb) = Recent(added, Min(cb.size, Len(added)))
    /\ Len(GetAll(cb)) = Min(cb.size, Len(added))
    /\ \E k \in 0..Len(added) : got = Recent(SubSeq(added, 1, k), Min(cb.size, k))

\* Capacity 5 after 7 Adds: GetAll returned the 3rd to the 7th.
C2_Witness ==
    /\ cb.size = 5
    /\ Len(added) = 7
    /\ added[2] # added[7]
    /\ got = SubSeq(added, 3, 7)

\* C3: when a /msg for an existing room is handled, the formatted line is
\* written to every member of the room other than the sender, and never to
\* the sender.
C3_BroadcastExcludesSender ==
    [][(Handling(CmdMsg) /\ Len(cur.Args) >= 3 /\ cur.Args[2] \in DOMAIN Rooms)
         => WrittenTo(wire', FormatMsg(NickName[cur.Client], cur.Args))
              = Rooms[cur.Args[2]].Clients \ {cur.Client}]_vars

\* C4: when a Join for room B is handled for a session that is a member of a
\* different room A, the session is afterwards not in A's Clients and is in B's.
C4_JoinLeavesOldRoom ==
    [][(/\ Handling(CmdJoin)
        /\ Len(cur.Args) >= 2
        /\ Room[cur.Client] \notin {Nil, cur.Args[2]}
        /\ cur.Client \in Rooms[Room[cur.Client]].Clients)
         => /\ cur.Client \notin Rooms'[Room[cur.Client]].Clients
            /\ cur.Client \in Rooms'[cur.Args[2]].Clients]_vars

\* C5: between two handlers, every session in a room's Clients has that room
\* as its Client.Room.
C5_MembersPointBack ==
    cur = NoCommand =>
        \A r \in DOMAIN Rooms : \A c \in Rooms[r].Clients : Room[c] = r

C7_RunNeverPanics == ~panicked

\* A /name, /join or /msg with nothing after the command token, or a /msg
\* naming a room that is not in the registry.
Rejected(cmd) ==
    \/ cmd.ID \in {CmdNickname, CmdJoin, CmdMsg} /\ Len(cmd.Args) = 1
    \/ cmd.ID = CmdMsg /\ Len(cmd.Args) >= 2 /\ cmd.Args[2] \notin DOMAIN Rooms

\* C8: handling a rejected command writes exactly one "Error: ..." line, to
\* the issuer's Conn, and leaves every nickname, every Client.Room, the
\* registry, every room's Clients and Messages, and every Conn as they were.
C8_RejectedChangesNothing ==
    [][(handled' # handled /\ Rejected(cur))
         => /\ UNCHANGED <<Rooms, NickName, Room, closed>>
            /\ Len(wire') = 1
            /\ wire'[1].op = "write"
            /\ wire'[1].to = cur.Client
            /\ wire'[1].line[1] = "Error:"]_vars

\* "room not found" was just answered to c1 while room B exists with c2 in it.
C8_Witness ==
    /\ cur = NoCommand
    /\ wire = <<[op |-> "write", to |-> "c1", line |-> <<"Error:", "room not found">>,
                 ok |-> TRUE]>>
    /\ DOMAIN Rooms = {"B"}
    /\ Rooms["B"].Clients = {"c2"}

\* C9: a /msg with a room name and no text is answered with one error line to
\* the issuer and changes no room (nothing is added to a history buffer).
C9_MsgWithoutTextRejected ==
    [][(Handling(CmdMsg) /\ Len(cur.Args) = 2)
         => /\ Rooms' = Rooms
            /\ Len(wire') = 1
            /\ wire'[1].to = cur.Client
            /\ wire'[1].line[1] = "Error:"]_vars

\* C10: a Quit removes the session from its room, writes the "left" notice to
\* the remaining members, then writes a farewell line to the issuer and only
\* then closes the issuer's Conn.
C10_QuitFarewellThenClose ==
    [][Handling(CmdQuit)
         => LET c == cur.Client
                n == Len(wire')
            IN  /\ n >= 2
                /\ wire'[n] = ConnClose(c)
                /\ wire'[n - 1].op = "write"
                /\ wire'[n - 1].to = c
                /\ wire'[n - 1].line # LeftNotice(NickName[c])
                /\ \A i \in 1..(n - 2) :
                      /\ wire'[i].line = LeftNotice(NickName[c])
                      /\ wire'[i].to \in Rooms'[Room[c]].Clients
                /\ Room[c] # Nil => c \notin Rooms'[Room[c]].Clients]_vars

\* The room names a "Rooms: ..." line lists.
ListedRooms(line) ==
    IF line = <<"Rooms:", "no rooms available">>
    THEN {}
    ELSE {line[i] : i \in 2..Len(line)}

\* C11: the set of room names changes only in a Join that carries a room name,
\* and then only by gaining that name; every ListRooms reports exactly the
\* names in the registry, so two of them with no Join between report the same
\* set.
C11_RegistryGrowsOnlyByJoin ==
    [][/\ (DOMAIN Rooms' # DOMAIN Rooms)
            => /\ Handling(CmdJoin)
               /\ Len(cur.Args) >= 2
               /\ DOMAIN Rooms' = DOMAIN Rooms \cup {cur.Args[2]}
       /\ Handling(CmdRooms)
            => /\ Len(wire') = 1
               /\ wire'[1].to = cur.Client
               /\ ListedRooms(wire'[1].line) = DOMAIN Rooms
               /\ DOMAIN Rooms' = DOMAIN Rooms]_vars

\* A ListRooms has reported both rooms of the registry.
C11_Witness ==
    /\ cur = NoCommand
    /\ Len(wire) = 1
    /\ Len(wire[1].line) = 3
    /\ wire[1].line[1] = "Rooms:"
    /\ DOMAIN Rooms = {"A", "B"}

\* C12: in every state of a CircularBuffer of capacity N reached by Add and
\* GetAll calls, 0 <= count <= N, 0 <= start < N, 0 <= end < N and
\* end = (start + count) mod N.
C12_BufferIndices ==
    /\ 0 <= cb.count /\ cb.count <= cb.size
    /\ 0 <= cb.start /\ cb.start < cb.size
    /\ 0 <= cb.end /\ cb.end < cb.size
    /\ cb.end = (cb.start + cb.count) % cb.size

\* A full buffer of capacity 3 that has wrapped, read by GetAll in between.
C12_Witness ==
    /\ cb.size = 3
    /\ cb.count = 3
    /\ cb.start = 2
    /\ Len(added) = 5
    /\ Len(got) = 2

\* C15: once v1's Quit has been handled for a session, the session is in no
\* room's Members, whatever its read loop read before the Conn was closed.
C15_QuitIsFinal ==
    \A c \in ClientIds :
        (closed[c] /\ cur = ChatNoCommand)
            => \A r \in DOMAIN Rooms : c \notin Rooms[r].Members

\* C16: after v1's Join with room name R is handled, the session is in R's
\* Members and R is its current room, whatever room it was in before.
C16_JoinedIsMember ==
    [][(Handling(CMD_JOIN) /\ Len(cur.Args) >= 2)
         => /\ cur.Client \in Rooms'[cur.Args[2]].Members
            /\ Room'[cur.Client] = cur.Args[2]]_vars

\* C17: between two handlers of v1, every session is in the Members of at most
\* one room, and that room is its Client.Room.
C17_AtMostOneRoom ==
    cur = ChatNoCommand =>
        \A c \in ClientIds : \A r \in DOMAIN Rooms :
            c \in Rooms[r].Members => Room[c] = r

\* c1 has moved from room A to room B, where c2 is too.
C17_Witness ==
    /\ cur = ChatNoCommand
    /\ DOMAIN Rooms = {"A", "B"}
    /\ Rooms["A"].Members = {}
    /\ Rooms["B"].Members = {"c1", "c2"}
    /\ Room["c1"] = "B"

\* C19: between two handlers of chatv2, every session whose Client.Room is a
\* room R is in R's Clients; the session a Quit has just closed has no room.
C19_RoomHoldsItsSession ==
    cur = NoCommand =>
        /\ \A c \in ClientIds :
              Room[c] # Nil =>
                  /\ Room[c] \in DOMAIN Rooms
                  /\ c \in Rooms[Room[c]].Clients
        /\ (Len(wire) > 0 /\ wire[Len(wire)].op = "close")
              => Room[wire[Len(wire)].to] = Nil

\* c1 has quit room A, which told c2, still in it.
C19_Witness ==
    /\ cur = NoCommand
    /\ Len(wire) = 2
    /\ wire[1] = [op |-> "write", to |-> "c2", line |-> LeftNotice("Anonymous"),
                  ok |-> TRUE]
    /\ wire[2].op = "close"
    /\ Room = [c \in ClientIds |-> IF c = "c2" THEN "A" ELSE Nil]
    /\ Rooms["A"].Clients = {"c2"}

\* The lines of a sequence whose first token is a known command.
Known(lines) == SelectSeq(lines, LAMBDA a : a[1] \in CommandIDs)

\* C13: every line a client sent that names a known command is built into a
\* Command exactly once and in the order sent: what ReadInput has built so
\* far, followed by what waits on the Conn, is what the client sent.
C13_EveryLineEnqueuedOnce ==
    \A c \in ClientIds : Known(typed[c]) = enq[c] \o Known(inbox[c])

\* C14: a member whose Write never returns does not keep a broadcast from the
\* members after it, and Run goes on: when a handler is held in a Write to a
\* session other than the issuer, each Write it has not reached is to a
\* session that is stuck as well, and no session waits to hand a Command to
\* Run.
C14_StuckMemberHoldsNobody ==
    (stalledAt # 0 /\ wire[stalledAt].to # cur.Client) =>
        /\ \A i \in (stalledAt + 1)..Len(wire) :
               wire[i].op = "write" => wire[i].to \in stuck
        /\ \A c \in ClientIds : pc[c] # "send"

====
